---- MODULE Spec2Model ----
(***************************************************************************)
(* Build orchestration engine of ReqPM: the Redis-backed concurrency gate  *)
(* (apps/builds/concurrency.py), the build-order computation               *)
(* (core/requirements_parser.py), the per-package build pipeline           *)
(* (apps/packages/tasks.py, apps/packages/views.py) and the worker         *)
(* start-up recovery (reqpm/celery.py).                                    *)
(*                                                                         *)
(* Three specifications share the variables:                               *)
(*   SpecGate   callers use the gate's API directly                        *)
(*   SpecOrder  calculate_build_order run on every small dependency map    *)
(*   Spec       the package build pipeline on top of the gate              *)
(***************************************************************************)
EXTENDS Integers, FiniteSets, Sequences, TLC

\* ------------------------------------------------------------------ bounds
\* largest cap of the gate (settings MAX_CONCURRENT_BUILDS) considered
MaxCap == 2
\* TTL of the semaphore key, in clock ticks (7200 s in the code)
lock_timeout == 2
\* longest timeout, in clock ticks, a caller passes to acquire()
MaxTimeout == 1

\* most occurrences of one name in a unit's dependency list
MaxDup == 1

\* most task messages of one package waiting in the broker
MaxQueued == 1
\* the longest build log, in lines
MaxLines == 2
\* the matches of one pattern in the longest log considered (the analyzer
\* reports at most 10 items per category)
MaxMatches == 12

\* ------------------------------------------------------------- universes
\* package names a dependency map can mention
Names == {"A", "B", "C"}
Callers == {"w1", "w2", "w3"}
\* the worker processes that run build tasks
Workers == {"w1", "w2"}
NoId == "none"
JobIds == {"build_package_A", "build_package_B", "build_package_C"}
NoJob == "none"
\* timeout=None of acquire()
NoTimeout == -1
Timeouts == {NoTimeout} \cup (1..MaxTimeout)

VARIABLES
    max_concurrent,   \* the limiter's cap, read from the settings at start
    semaphore,   \* members of the Redis set reqpm:job:semaphore
    semTTL,      \* remaining life of that key in ticks (0: no key)
    heldFor,     \* per job id: ticks since its last admission, capped
    caller,      \* per caller: where it is in acquire()/try_acquire()
    dependency_tree,  \* calculate_build_order: its argument
    in_degree,        \* calculate_build_order: local
    levels,           \* calculate_build_order: local, the result
    remaining,        \* calculate_build_order: local
    orderPc,          \* calculate_build_order: "idle", "loop" or "done"
    packages,         \* the stored Package rows, by id
    dependencies,     \* the stored PackageDependency rows <<package, depends_on>>
    queued,           \* build_single_package_task messages in the broker, per id
    exec,             \* per worker process: the task execution it runs
    request,          \* the build_package request that is between its
                      \* dependency check and its save, if any
    buildable,        \* the packages that have a spec revision and fetched
                      \* sources (what the views require)
    recorded,         \* the packages whose log, error, findings and artifact
                      \* fields the model keeps track of
    cancelled,        \* history: the recorded packages whose build was
                      \* cancelled and that were not requested since
    patterns,         \* per BuildErrorAnalyzer instance: self.patterns
    log_output,       \* analyze: the argument of the latest call
    errors,           \* analyze: the list the latest call returned
    self,             \* analyze: the instance of the latest call
    previous,         \* an earlier call of analyze kept for comparison
    build_job,        \* the stored BuildJob row: its status ("none": no job)
    build_queue,      \* the stored BuildQueue rows of the job, by id
    job_broker,       \* the messages in the broker for the job's tasks
    btask             \* per worker process: the build_package_task it runs

gateVars == <<max_concurrent, semaphore, semTTL, heldFor>>
orderVars == <<dependency_tree, in_degree, levels, remaining, orderPc>>
pipeVars == <<packages, dependencies, queued, exec, request, buildable, recorded,
              cancelled>>
\* the rows and settings no action changes
settings == <<dependencies, buildable, recorded>>
\* what the tasks leave alone: the settings and the history of the requests
fixed == <<settings, cancelled>>
analyzerVars == <<patterns, log_output, errors, self, previous>>
jobVars == <<build_job, build_queue, job_broker, btask>>
vars == <<max_concurrent, semaphore, semTTL, heldFor, caller, orderVars, pipeVars,
          analyzerVars, jobVars>>
\* what the gate's API calls, calculate_build_order and the pipeline leave
\* alone
nonGate == <<orderVars, pipeVars, analyzerVars, jobVars>>
nonOrder == <<gateVars, caller, pipeVars, analyzerVars, jobVars>>
nonPipe == <<caller, orderVars, analyzerVars, jobVars>>
nonAnalyzer == <<gateVars, caller, orderVars, pipeVars, jobVars>>
nonJob == <<caller, orderVars, pipeVars, analyzerVars>>

Min(a, b) == IF a < b THEN a ELSE b

\* ------------------------------------------------------------- the gate
\* _ACQUIRE_LUA: the check of the script
ScriptAdmits_off(s) == Cardinality(s) <= max_concurrent
ScriptAdmits(s) == Cardinality(s) < max_concurrent

\* _ACQUIRE_LUA: the set after a run of the script for job
ScriptSet_always(s, job) == s \cup {job}
ScriptSet(s, job) == IF ScriptAdmits(s) THEN s \cup {job} ELSE s

\* _ACQUIRE_LUA: the key's TTL after a run of the script ('expire' only on
\* admission; it is the key's TTL, not the member's)
ScriptTTL(s, ttl) == IF ScriptAdmits(s) THEN lock_timeout ELSE ttl

\* one atomic run of the script against the store
RunScript(job) ==
    /\ UNCHANGED max_concurrent
    /\ semaphore' = ScriptSet(semaphore, job)
    /\ semTTL' = ScriptTTL(semaphore, semTTL)
    /\ heldFor' = IF ScriptAdmits(semaphore)
                  THEN [heldFor EXCEPT ![job] = 0] ELSE heldFor

\* redis srem: a key whose set becomes empty is removed with its TTL
Srem(job) ==
    /\ UNCHANGED max_concurrent
    /\ semaphore' = semaphore \ {job}
    /\ semTTL' = IF semaphore \ {job} = {} THEN 0 ELSE semTTL
    /\ heldFor' = [heldFor EXCEPT ![job] = 0]

\* redis delete of the key (clear_all)
DeleteKey ==
    /\ UNCHANGED max_concurrent
    /\ semaphore' = {}
    /\ semTTL' = 0
    /\ heldFor' = [j \in DOMAIN heldFor |-> 0]

\* get_active_count
get_active_count == Cardinality(semaphore)

\* the store's clock: the key expires when its TTL runs out
ExpireKey ==
    /\ UNCHANGED max_concurrent
    /\ semTTL' = IF semTTL > 0 THEN semTTL - 1 ELSE 0
    /\ semaphore' = IF semTTL = 1 THEN {} ELSE semaphore

\* the time each member has been in the set, after one more tick
Aged ==
    IF semTTL = 1
    THEN [j \in DOMAIN heldFor |-> 0]
    ELSE [j \in DOMAIN heldFor |->
            IF j \in semaphore THEN Min(heldFor[j] + 1, lock_timeout) ELSE 0]

\* --------------------------------------------------- callers of the gate
Idle == [st |-> "idle", job |-> NoJob, timeout |-> NoTimeout, waited |-> 0]

InitGateVars ==
    /\ max_concurrent \in 1..MaxCap
    /\ semaphore = {}
    /\ semTTL = 0
    /\ heldFor = [j \in JobIds |-> 0]

\* no build order is being computed
OrderIdle ==
    /\ dependency_tree = <<>>
    /\ in_degree = <<>>
    /\ levels = <<>>
    /\ remaining = {}
    /\ orderPc = "idle"

\* no BuildErrorAnalyzer has been constructed and analyze was never called
NoCall == [called |-> FALSE, self |-> NoId, log_output |-> <<>>, errors |-> <<>>]
AnalyzerIdle ==
    /\ patterns = <<>>
    /\ log_output = <<>>
    /\ errors = <<>>
    /\ self = NoId
    /\ previous = NoCall

\* no build job has been created; ws are the worker processes
NoMessages == [build_package_task |-> <<>>, process_build_queue |-> 0,
               check_build_job_completion |-> 0]
NoItem == [status |-> "pending", build_order |-> 0, started_at |-> FALSE,
           error_message |-> "", build_log |-> ""]
NoBuildTask == [pc |-> "idle", id |-> 0, waited |-> 0, queue_item |-> NoItem]
JobIdle(ws) ==
    /\ build_job = "none"
    /\ build_queue = <<>>
    /\ job_broker = NoMessages
    /\ btask = [w \in ws |-> NoBuildTask]

\* Package: the build fields of a new row (models.py defaults); the
\* timestamps are left out
NewPackage ==
    [build_status |-> "not_built",
     build_log |-> "", build_error_message |-> "", analyzed_errors |-> <<>>,
     srpm_path |-> "", rpm_path |-> ""]

\* a worker process that runs no task
NoExec == [pc |-> "idle", id |-> NoId, package |-> NewPackage]

\* no build_package request in flight
NoRequest == [open |-> FALSE, id |-> NoId, package |-> NewPackage]

\* the project considered: A depends on B
ProjectPackages == {"A", "B"}
ProjectDependencies == {<<"A", "B">>}

\* the pipeline at rest: the packages ids with dependency rows deps, and
\* the worker processes ws
PipeIdle(ids, deps, ws) ==
    /\ packages = [p \in ids |-> NewPackage]
    /\ dependencies = deps
    /\ queued = [p \in ids |-> 0]
    /\ exec = [w \in ws |-> NoExec]
    /\ request = NoRequest
    /\ buildable = ids
    /\ cancelled = {}

InitGate ==
    /\ InitGateVars
    /\ caller = [w \in Callers |-> Idle]
    /\ OrderIdle
    /\ AnalyzerIdle
    /\ JobIdle({})
    /\ PipeIdle({}, {}, {})
    /\ recorded = {}

\* try_acquire: one run of the script; admitted, or TimeoutError
TryAcquire(w, job) ==
    /\ caller[w].st = "idle"
    /\ RunScript(job)
    /\ caller' = [caller EXCEPT ![w] =
           IF ScriptAdmits(semaphore)
           THEN [Idle EXCEPT !.st = "holding", !.job = job]
           ELSE Idle]
    /\ UNCHANGED nonGate

\* acquire: entering the loop
AcquireBegin(w, job, timeout) ==
    /\ caller[w].st = "idle"
    /\ caller' = [caller EXCEPT ![w] =
           [st |-> "waiting", job |-> job, timeout |-> timeout, waited |-> 0]]
    /\ UNCHANGED gateVars
    /\ UNCHANGED nonGate

\* acquire: the timeout test of a loop iteration
TimedOut(c) == c.timeout # NoTimeout /\ c.waited >= c.timeout

\* acquire: one iteration of the loop
AcquireLoop(w) ==
    /\ caller[w].st = "waiting"
    /\ IF TimedOut(caller[w])
       THEN /\ caller' = [caller EXCEPT ![w] = Idle]
            /\ UNCHANGED gateVars
       ELSE /\ RunScript(caller[w].job)
            /\ caller' = [caller EXCEPT ![w] =
                   IF ScriptAdmits(semaphore)
                   THEN [Idle EXCEPT !.st = "holding", !.job = caller[w].job]
                   ELSE caller[w]]
    /\ UNCHANGED nonGate

\* the finally block of acquire/try_acquire after an admission
Release(w) ==
    /\ caller[w].st = "holding"
    /\ Srem(caller[w].job)
    /\ caller' = [caller EXCEPT ![w] = Idle]
    /\ UNCHANGED nonGate

\* a holder's process is killed: the finally block never runs
Crash(w) ==
    /\ caller[w].st = "holding"
    /\ caller' = [caller EXCEPT ![w] = Idle]
    /\ UNCHANGED gateVars
    /\ UNCHANGED nonGate

\* force_release
force_release(job) ==
    /\ Srem(job)
    /\ UNCHANGED caller
    /\ UNCHANGED nonGate

\* clear_all
clear_all ==
    /\ DeleteKey
    /\ UNCHANGED caller
    /\ UNCHANGED nonGate

\* time passes by one tick
Tick ==
    /\ ExpireKey
    /\ heldFor' = Aged
    /\ caller' = [w \in Callers |->
           IF caller[w].st = "waiting"
           THEN [caller[w] EXCEPT !.waited = Min(@ + 1, MaxTimeout)]
           ELSE caller[w]]
    /\ UNCHANGED nonGate

NextGate ==
    \/ \E w \in Callers, j \in JobIds : TryAcquire(w, j)
    \/ \E w \in Callers, j \in JobIds, t \in Timeouts : AcquireBegin(w, j, t)
    \/ \E w \in Callers : AcquireLoop(w)
    \/ \E w \in Callers : Release(w)
    \/ \E w \in Callers : Crash(w)
    \/ \E j \in JobIds : force_release(j)
    \/ clear_all
    \/ Tick

SpecGate == InitGate /\ [][NextGate]_vars

\* ------------------------------------------------- calculate_build_order
\* the dependency maps: some of the names are keys, and a key's list names
\* each name up to MaxDup times (names that are not keys included)
DepLists == [Names -> 0..MaxDup]
DependencyTrees == UNION {[K -> DepLists] : K \in SUBSET Names}

Keys(tree) == DOMAIN tree

RECURSIVE SumOver(_, _)
SumOver(S, f) ==
    IF S = {} THEN 0
    ELSE LET x == CHOOSE y \in S : TRUE IN f[x] + SumOver(S \ {x}, f)

\* lines 211-216: in_degree[dep] is raised once per occurrence of dep in
\* any unit's list, for the deps that are keys
InitialInDegree(tree) ==
    [d \in Keys(tree) |-> SumOver(Keys(tree), [q \in Keys(tree) |-> tree[q][d]])]

\* lines 224-227: the units of remaining whose in_degree is 0
CurrentLevel(rem, deg) == {pkg \in rem : deg[pkg] = 0}

\* lines 229-233: what is appended when no unit has in_degree 0
CycleLevel_one(rem) == {CHOOSE pkg \in rem : TRUE}
CycleLevel(rem) == rem

\* lines 238-242: in_degree after the units of the level were removed;
\* dep_pkg is lowered once per unit of the level that its list names
LoweredInDegree(tree, deg, level) ==
    [dep_pkg \in Keys(tree) |->
        deg[dep_pkg] - Cardinality({pkg \in level : tree[dep_pkg][pkg] > 0})]

\* the call: the argument and lines 211-220
OrderBegin(tree) ==
    /\ orderPc = "idle"
    /\ dependency_tree' = tree
    /\ in_degree' = InitialInDegree(tree)
    /\ levels' = <<>>
    /\ remaining' = Keys(tree)
    /\ orderPc' = "loop"
    /\ UNCHANGED nonOrder

\* one iteration of the while loop (lines 222-242), or the return
OrderStep ==
    /\ orderPc = "loop"
    /\ IF remaining = {}
       THEN /\ orderPc' = "done"
            /\ UNCHANGED <<in_degree, levels, remaining>>
       ELSE LET current_level == CurrentLevel(remaining, in_degree) IN
            IF current_level = {}
            THEN /\ levels' = Append(levels, CycleLevel(remaining))
                 /\ orderPc' = "done"
                 /\ UNCHANGED <<in_degree, remaining>>
            ELSE /\ levels' = Append(levels, current_level)
                 /\ remaining' = remaining \ current_level
                 /\ in_degree' = LoweredInDegree(dependency_tree, in_degree,
                                                 current_level)
                 /\ orderPc' = "loop"
    /\ UNCHANGED dependency_tree
    /\ UNCHANGED nonOrder

InitOrder ==
    /\ InitGateVars
    /\ caller = [w \in Callers |-> Idle]
    /\ OrderIdle
    /\ AnalyzerIdle
    /\ JobIdle({})
    /\ PipeIdle({}, {}, {})
    /\ recorded = {}

NextOrder ==
    \/ \E tree \in DependencyTrees : OrderBegin(tree)
    \/ OrderStep

SpecOrder == InitOrder /\ [][NextOrder]_vars

\* the call runs on: the loop is not suspended forever
SpecOrderFair == InitOrder /\ [][NextOrder]_vars /\ WF_vars(OrderStep)

\* -------------------------------------------- claims on the build order
\* the level index of a unit in the result (0 when it is in no level)
LevelOf(pkg) ==
    IF \E i \in 1..Len(levels) : pkg \in levels[i]
    THEN CHOOSE i \in 1..Len(levels) : pkg \in levels[i]
    ELSE 0

\* the keys a unit depends on
DepsOf(tree, pkg) == {d \in Keys(tree) : tree[pkg][d] > 0}

RECURSIVE ReachIn(_, _, _)
ReachIn(tree, S, n) ==
    IF n = 0 THEN S
    ELSE ReachIn(tree, S \cup UNION {DepsOf(tree, q) : q \in S}, n - 1)

\* pkg is on a dependency cycle of the map
OnCycle(tree, pkg) ==
    pkg \in Keys(tree)
    /\ pkg \in ReachIn(tree, DepsOf(tree, pkg), Cardinality(Names))

Acyclic(tree) == \A pkg \in Keys(tree) : ~OnCycle(tree, pkg)

\* C6: for an acyclic dependency map, every unit's level index in the
\* result is strictly greater than the level index of each unit it
\* depends on.
C6_TopologicalValidity ==
    (orderPc = "done" /\ Acyclic(dependency_tree)) =>
        \A pkg \in Keys(dependency_tree) :
            \A d \in DepsOf(dependency_tree, pkg) : LevelOf(pkg) > LevelOf(d)

\* C7: on a map with a cycle the call returns, and in the result the units
\* on a cycle are all in one level, the last one.
C7_CycleTermination ==
    [](orderPc = "loop" /\ ~Acyclic(dependency_tree)
        => <>(/\ orderPc = "done"
              /\ Len(levels) > 0
              /\ \A pkg \in Keys(dependency_tree) :
                    OnCycle(dependency_tree, pkg)
                        => pkg \in levels[Len(levels)]))

\* a call on a map with a cycle and a unit outside it has returned
C7_Witness ==
    /\ orderPc = "done"
    /\ \E pkg \in Keys(dependency_tree) : OnCycle(dependency_tree, pkg)
    /\ \E pkg \in Keys(dependency_tree) : ~OnCycle(dependency_tree, pkg)
    /\ Len(levels) > 1

\* the gate with a clock that keeps running
SpecGateFair == InitGate /\ [][NextGate]_vars /\ WF_vars(Tick)

\* ------------------------------------------------------ claims on the gate
\* caller w runs the admission script for job j in this step
Attempt(w, j) ==
    \/ TryAcquire(w, j)
    \/ (AcquireLoop(w) /\ caller[w].job = j /\ ~TimedOut(caller[w]))

\* C1: under every interleaving of acquire, try_acquire, release and
\* force_release the number of job ids in the semaphore set never exceeds
\* the cap.
C1_CapInvariant == get_active_count <= max_concurrent

\* the pool is full, one caller was turned away and is still in acquire()
C1_Witness ==
    /\ Cardinality(semaphore) = max_concurrent
    /\ \E w \in Callers : caller[w].st = "waiting" /\ caller[w].waited > 0
    /\ Cardinality({w \in Callers : caller[w].st = "holding"}) = max_concurrent

C4_TTLReclaim ==
    \A j \in semaphore :
        heldFor[j] >= lock_timeout => Cardinality(semaphore) < max_concurrent

\* C5: a reservation whose holder is gone (nobody will release it) is
\* eventually removed from the set (unless a new caller takes up the same
\* job id), also while other jobs keep being admitted and released.
C5_CrashedHolderReclaimed ==
    \A j \in JobIds :
        (j \in semaphore /\ \A w \in Callers : caller[w].job # j)
            ~> (j \notin semaphore \/ \E w \in Callers : caller[w].job = j)

\* ------------------------------------------------ the package build pipeline
\* limiter.try_acquire(f"build_package_{package_id}"): the job id of a package
BuildJobId(p) ==
    [A |-> "build_package_A", B |-> "build_package_B", C |-> "build_package_C"][p]

\* the packages a package depends on (package.dependencies.all())
DependsOn(p) == {d \in DOMAIN packages : <<p, d>> \in dependencies}

\* the statuses that count as a built dependency
BuiltStatuses == {"completed", "not_required"}

\* views.py 271-275, tasks.py 741-745: the dependencies not yet built
UnbuiltDeps(p) == {d \in DependsOn(p) : packages[d].build_status \notin BuiltStatuses}

\* task.delay(id) for every id of S: one more message each
Delay(S) == [p \in DOMAIN packages |-> IF p \in S THEN queued[p] + 1 ELSE queued[p]]
CanDelay(S) == \A p \in S : queued[p] < MaxQueued

\* the executions that are inside their `with limiter.try_acquire(...)` block
BlockPcs == {"admitted", "pending", "building", "srpm", "rpm", "trigger",
             "exit", "raised"}
InBlock(w) == exec[w].pc \in BlockPcs

\* package.save(): the row as the model keeps it
Stored(p, row) ==
    IF p \in recorded THEN row
    ELSE [NewPackage EXCEPT !.build_status = row.build_status]

\* views.py 279-282: the row the request saves
WaitingRow(row) ==
    [row EXCEPT !.build_status = "waiting_for_deps",
                !.build_error_message = "", !.build_log = ""]

\* history: the packages S are requested; package p is cancelled
Requested(S) == cancelled' = cancelled \ S
Cancelled(p) == cancelled' = IF p \in recorded THEN cancelled \cup {p} ELSE cancelled

\* views.py 254-295, build_package: the dependency check; with unbuilt
\* dependencies the request goes on to save its copy of the row as
\* waiting_for_deps, otherwise the task is dispatched
BuildPackageCheck(p) ==
    /\ p \in buildable
    /\ ~request.open
    /\ IF UnbuiltDeps(p) # {}
       THEN /\ request' = [open |-> TRUE, id |-> p,
                             package |-> Stored(p, WaitingRow(packages[p]))]
            /\ UNCHANGED queued
       ELSE /\ CanDelay({p})
            /\ queued' = Delay({p})
            /\ UNCHANGED request
    /\ Requested({p})
    /\ UNCHANGED <<packages, settings, exec, gateVars, nonPipe>>

\* views.py 277-292, build_package: the save of waiting_for_deps
BuildPackageSave(p) ==
    /\ request.open
    /\ request.id = p
    /\ packages' = [packages EXCEPT ![p] = Stored(p, request.package)]
    /\ request' = NoRequest
    /\ UNCHANGED <<fixed, queued, exec, gateVars, nonPipe>>

\* views.py 332-363, rebuild_package
RebuildPackage(p) ==
    /\ p \in buildable
    /\ CanDelay({p})
    /\ queued' = Delay({p})
    /\ Requested({p})
    /\ UNCHANGED <<packages, settings, exec, request, gateVars, nonPipe>>

\* views.py 311: the states a build can be cancelled in
Cancellable_running == {"waiting_for_deps", "pending", "building"}
Cancellable == {"waiting_for_deps", "pending"}

\* views.py 317-322: the row a cancel saves
CancelledRow(row) ==
    [row EXCEPT !.build_status = "not_built",
                !.build_error_message = "", !.build_log = ""]

\* views.py 302-330, cancel_build
CancelBuild(p) ==
    /\ packages[p].build_status \in Cancellable
    /\ packages' = [packages EXCEPT ![p] = Stored(p, CancelledRow(@))]
    /\ Cancelled(p)
    /\ UNCHANGED <<settings, queued, exec, request, gateVars, nonPipe>>

\* projects/views.py 384-424, build_all_packages: every package that is not
\* completed is dispatched
BuildAllPackages ==
    LET todo == {p \in buildable : packages[p].build_status # "completed"} IN
    /\ todo # {}
    /\ CanDelay(todo)
    /\ queued' = Delay(todo)
    /\ Requested(todo)
    /\ UNCHANGED <<packages, settings, exec, request, gateVars, nonPipe>>

\* tasks.py 471-473: a worker takes a message and the task runs the
\* admission script once
TaskStart(w, p) ==
    /\ exec[w].pc = "idle"
    /\ queued[p] > 0
    /\ queued' = [queued EXCEPT ![p] = @ - 1]
    /\ RunScript(BuildJobId(p))
    /\ exec' = [exec EXCEPT ![w] =
           [pc |-> IF ScriptAdmits(semaphore) THEN "admitted" ELSE "noslot",
            id |-> p, package |-> NewPackage]]
    /\ UNCHANGED <<packages, fixed, request, nonPipe>>

\* tasks.py 477-489: the row is read, set to pending, cleared and saved
PendingRow(row) ==
    [row EXCEPT !.build_status = "pending",
                !.build_log = "", !.build_error_message = "",
                !.srpm_path = "", !.rpm_path = ""]

TaskSavePending(w) ==
    /\ exec[w].pc = "admitted"
    /\ LET row == Stored(exec[w].id, PendingRow(packages[exec[w].id])) IN
       /\ packages' = [packages EXCEPT ![exec[w].id] = Stored(exec[w].id, row)]
       /\ exec' = [exec EXCEPT ![w].pc = "pending", ![w].package = row]
    /\ UNCHANGED <<fixed, queued, request, gateVars, nonPipe>>

\* tasks.py 496-498: the task's copy is set to building and saved
BuildingRow(row) ==
    [row EXCEPT !.build_status = "building"]

TaskSaveBuilding(w) ==
    /\ exec[w].pc = "pending"
    /\ LET row == Stored(exec[w].id, BuildingRow(exec[w].package)) IN
       /\ packages' = [packages EXCEPT ![exec[w].id] = Stored(exec[w].id, row)]
       /\ exec' = [exec EXCEPT ![w].pc = "building", ![w].package = row]
    /\ UNCHANGED <<fixed, queued, request, gateVars, nonPipe>>

\* tasks.py 504-591: the messages of the failed preconditions
PreconditionErrors ==
    {"Mock builder is not available", "No spec file found",
     "Source directory not found", "Failed to copy sources",
     "Invalid build target"}

\* a failed save of the task's copy (tasks.py 505-513 and the like)
FailedRow_silent(row, msg) ==
    [row EXCEPT !.build_status = "failed"]
FailedRow(row, msg) ==
    [row EXCEPT !.build_status = "failed", !.build_error_message = msg]

\* BuildErrorAnalyzer.analyze on a stage's log, as stored (tasks.py 611-616)
Analyzed(log) == IF log = "" THEN <<>> ELSE <<"finding">>

\* tasks.py 604-620, 640-656: the save after a failed builder stage
StageFailedRow(row, msg, log) ==
    [row EXCEPT !.build_status = "failed", !.build_error_message = msg,
                !.build_log = log, !.analyzed_errors = Analyzed(log)]

\* tasks.py 664-681: the save after both stages succeeded; rpm_file is
\* None when the builder found no rpm file
CompletedRow(row, log, srpm, rpm) ==
    [row EXCEPT !.build_status = "completed", !.build_log = log,
                !.srpm_path = srpm, !.rpm_path = rpm,
                !.analyzed_errors = Analyzed(log)]

\* tasks.py 501-591: builder, spec, sources and target are checked; a
\* failed check saves failed and returns, an unexpected exception leaves
\* the block
TaskPreconditions(w) ==
    /\ exec[w].pc = "building"
    /\ \/ /\ exec' = [exec EXCEPT ![w].pc = "srpm"]
          /\ UNCHANGED packages
       \/ \E msg \in PreconditionErrors :
            LET row == Stored(exec[w].id, FailedRow(exec[w].package, msg)) IN
            /\ packages' = [packages EXCEPT ![exec[w].id] = Stored(exec[w].id, row)]
            /\ exec' = [exec EXCEPT ![w].pc = "exit", ![w].package = row]
       \/ /\ exec' = [exec EXCEPT ![w].pc = "raised"]
          /\ UNCHANGED packages
    /\ UNCHANGED <<fixed, queued, request, gateVars, nonPipe>>

\* tasks.py 597-625: build_srpm and the save of its failure
TaskBuildSrpm(w) ==
    /\ exec[w].pc = "srpm"
    /\ \/ /\ exec' = [exec EXCEPT ![w].pc = "rpm"]
          /\ UNCHANGED packages
       \/ LET row == Stored(exec[w].id,
                     StageFailedRow(exec[w].package, "SRPM build failed",
                                    "srpm log")) IN
          /\ packages' = [packages EXCEPT ![exec[w].id] = Stored(exec[w].id, row)]
          /\ exec' = [exec EXCEPT ![w].pc = "exit", ![w].package = row]
    /\ UNCHANGED <<fixed, queued, request, gateVars, nonPipe>>

\* tasks.py 632-681: build_rpm and the save of its failure or of the
\* completed build
TaskBuildRpm(w) ==
    /\ exec[w].pc = "rpm"
    /\ \/ LET row == Stored(exec[w].id,
                     StageFailedRow(exec[w].package, "RPM build failed",
                                    "rpm log")) IN
          /\ packages' = [packages EXCEPT ![exec[w].id] = Stored(exec[w].id, row)]
          /\ exec' = [exec EXCEPT ![w].pc = "exit", ![w].package = row]
       \/ \E rpm \in {"rpm file", "None"} :
          LET row == Stored(exec[w].id,
                     CompletedRow(exec[w].package, "rpm log", "srpm file", rpm)) IN
          /\ packages' = [packages EXCEPT ![exec[w].id] = Stored(exec[w].id, row)]
          /\ exec' = [exec EXCEPT ![w].pc = "trigger", ![w].package = row]
    /\ UNCHANGED <<fixed, queued, request, gateVars, nonPipe>>

\* tasks.py 734-751: the waiting packages that depend on the completed one
\* and have no unbuilt dependency
ToTrigger_pending(done) ==
    {q \in DOMAIN packages : /\ packages[q].build_status = "pending"
                   /\ done \in DependsOn(q)
                   /\ UnbuiltDeps(q) = {}}
ToTrigger_dependents(done) ==
    {q \in DOMAIN packages : /\ packages[q].build_status = "waiting_for_deps"
                   /\ done \in DependsOn(q)}
ToTrigger(done) ==
    {q \in DOMAIN packages : /\ packages[q].build_status = "waiting_for_deps"
                   /\ done \in DependsOn(q)
                   /\ UnbuiltDeps(q) = {}}

\* tasks.py 689, 723-757: trigger_waiting_builds, still inside the block
TaskTrigger(w) ==
    /\ exec[w].pc = "trigger"
    /\ CanDelay(ToTrigger(exec[w].id))
    /\ queued' = Delay(ToTrigger(exec[w].id))
    /\ exec' = [exec EXCEPT ![w].pc = "exit"]
    /\ UNCHANGED <<packages, fixed, request, gateVars, nonPipe>>

\* try_acquire's finally block at the end of the task (concurrency.py
\* 127-132)
TaskRelease(w) ==
    /\ exec[w].pc = "exit"
    /\ Srem(BuildJobId(exec[w].id))
    /\ exec' = [exec EXCEPT ![w] = NoExec]
    /\ UNCHANGED <<packages, fixed, queued, request, nonPipe>>

\* an exception leaves the block: the finally block releases the slot
TaskRaise(w) ==
    /\ exec[w].pc = "raised"
    /\ Srem(BuildJobId(exec[w].id))
    /\ exec' = [exec EXCEPT ![w].pc = "except"]
    /\ UNCHANGED <<packages, fixed, queued, request, nonPipe>>

\* tasks.py 709-718: the handler reads the row again and saves failed
TaskExcept(w) ==
    /\ exec[w].pc = "except"
    /\ packages' = [packages EXCEPT ![exec[w].id] =
           Stored(exec[w].id, FailedRow(@, "Unexpected error"))]
    /\ exec' = [exec EXCEPT ![w] = NoExec]
    /\ UNCHANGED <<fixed, queued, request, gateVars, nonPipe>>

\* tasks.py 697: the statuses the no-slot handler leaves as they are
KeptOnNoSlot == {"pending", "waiting_for_deps"}

\* tasks.py 696-699: the row after the no-slot handler
NoSlotRow_failed(row) == [row EXCEPT !.build_status = "failed"]
NoSlotRow(row) ==
    IF row.build_status \notin KeptOnNoSlot
    THEN [row EXCEPT !.build_status = "pending"] ELSE row

\* tasks.py 691-705: no slot; the row is set to pending and the task is
\* retried (max_retries=None)
TaskNoSlot(w) ==
    /\ exec[w].pc = "noslot"
    /\ CanDelay({exec[w].id})
    /\ packages' = [packages EXCEPT ![exec[w].id] =
           Stored(exec[w].id, NoSlotRow(@))]
    /\ queued' = Delay({exec[w].id})
    /\ exec' = [exec EXCEPT ![w] = NoExec]
    /\ UNCHANGED <<fixed, request, gateVars, nonPipe>>

\* the worker process is killed: nothing of the task runs any more
WorkerKilled(w) ==
    /\ exec[w].pc # "idle"
    /\ exec' = [exec EXCEPT ![w] = NoExec]
    /\ UNCHANGED <<packages, fixed, queued, request, gateVars, nonPipe>>

\* celery.py 40: the statuses reset at worker start
OrphanStatuses_old == {"pending", "building"}
OrphanStatuses == {"pending", "building", "waiting_for_deps"}

\* celery.py 44-50: the row after the reset
ResetRow(row) ==
    IF row.build_status \in OrphanStatuses
    THEN [row EXCEPT !.build_status = "not_built",
                     !.build_error_message = "", !.build_log = ""]
    ELSE row

\* celery.py 27-57, reset_orphaned_builds: the update and clear_all
reset_orphaned_builds ==
    /\ packages' = [p \in DOMAIN packages |-> Stored(p, ResetRow(packages[p]))]
    /\ DeleteKey
    /\ UNCHANGED <<fixed, queued, exec, request, nonPipe>>

\* lock_timeout passes without an admission: the key expires
KeyExpires ==
    /\ semTTL > 0
    /\ DeleteKey
    /\ UNCHANGED <<pipeVars, nonPipe>>

Init ==
    /\ InitGateVars
    /\ max_concurrent = 1
    /\ caller = [w \in Callers |-> Idle]
    /\ OrderIdle
    /\ AnalyzerIdle
    /\ JobIdle({})
    /\ PipeIdle(ProjectPackages, ProjectDependencies, Workers)
    /\ recorded = {}

Next ==
    \/ \E p \in DOMAIN packages : BuildPackageCheck(p)
    \/ \E p \in DOMAIN packages : BuildPackageSave(p)
    \/ \E p \in DOMAIN packages : RebuildPackage(p)
    \/ \E p \in DOMAIN packages : CancelBuild(p)
    \/ BuildAllPackages
    \/ \E w \in DOMAIN exec, p \in DOMAIN packages : TaskStart(w, p)
    \/ \E w \in DOMAIN exec : TaskSavePending(w)
    \/ \E w \in DOMAIN exec : TaskSaveBuilding(w)
    \/ \E w \in DOMAIN exec : TaskPreconditions(w)
    \/ \E w \in DOMAIN exec : TaskBuildSrpm(w)
    \/ \E w \in DOMAIN exec : TaskBuildRpm(w)
    \/ \E w \in DOMAIN exec : TaskTrigger(w)
    \/ \E w \in DOMAIN exec : TaskRelease(w)
    \/ \E w \in DOMAIN exec : TaskRaise(w)
    \/ \E w \in DOMAIN exec : TaskExcept(w)
    \/ \E w \in DOMAIN exec : TaskNoSlot(w)
    \/ \E w \in DOMAIN exec : WorkerKilled(w)
    \/ reset_orphaned_builds
    \/ KeyExpires

Spec == Init /\ [][Next]_vars

\* three independent packages, a build request for each already dispatched,
\* as many workers as packages, and nothing but the tasks running
SimultaneousPackages == {"A", "B", "C"}

InitSimultaneous ==
    /\ InitGateVars
    /\ caller = [w \in Callers |-> Idle]
    /\ OrderIdle
    /\ AnalyzerIdle
    /\ JobIdle({})
    /\ packages = [p \in SimultaneousPackages |-> NewPackage]
    /\ dependencies = {}
    /\ queued = [p \in SimultaneousPackages |-> 1]
    /\ exec = [w \in Callers |-> NoExec]
    /\ request = NoRequest
    /\ buildable = SimultaneousPackages
    /\ recorded = {}
    /\ cancelled = {}

NextTasks ==
    \/ \E w \in DOMAIN exec, p \in DOMAIN packages : TaskStart(w, p)
    \/ \E w \in DOMAIN exec : TaskSavePending(w)
    \/ \E w \in DOMAIN exec : TaskSaveBuilding(w)
    \/ \E w \in DOMAIN exec : TaskPreconditions(w)
    \/ \E w \in DOMAIN exec : TaskBuildSrpm(w)
    \/ \E w \in DOMAIN exec : TaskBuildRpm(w)
    \/ \E w \in DOMAIN exec : TaskTrigger(w)
    \/ \E w \in DOMAIN exec : TaskRelease(w)
    \/ \E w \in DOMAIN exec : TaskRaise(w)
    \/ \E w \in DOMAIN exec : TaskExcept(w)
    \/ \E w \in DOMAIN exec : TaskNoSlot(w)

SpecSimultaneous == InitSimultaneous /\ [][NextTasks]_vars

\* ------------------------------------------------- claims on the pipeline
StatusOf(p) == packages[p].build_status

\* C2: the executions that were admitted and have not left their guarded
\* block are never more than the cap.
C2_BuilderExclusive ==
    Cardinality({w \in DOMAIN exec : InBlock(w)}) <= max_concurrent

\* C8: when the completion handler of B runs while A is waiting_for_deps
\* and every dependency of A is completed, it dispatches A's task; and the
\* task, once admitted, saves pending and then building with no request in
\* between.
C8_WaitingUnitTriggered ==
    [][\A w \in DOMAIN exec :
         /\ (TaskTrigger(w) =>
               \A q \in DOMAIN packages :
                 (/\ StatusOf(q) = "waiting_for_deps"
                  /\ <<q, exec[w].id>> \in dependencies
                  /\ \A d \in DOMAIN packages :
                        <<q, d>> \in dependencies => StatusOf(d) = "completed")
                     => queued'[q] = queued[q] + 1)
         /\ (exec[w].pc = "admitted" /\ exec'[w].pc \notin {"admitted", "idle"}
               => /\ exec'[w].pc = "pending"
                  /\ packages'[exec[w].id].build_status = "pending")
         /\ (exec[w].pc = "pending" /\ exec'[w].pc \notin {"pending", "idle"}
               => /\ exec'[w].pc = "building"
                  /\ packages'[exec[w].id].build_status = "building")]_vars

\* B's completion handler has run with A waiting on B alone: A's task is
\* in the broker although A was requested before B was built
C8_Witness ==
    /\ \E w \in DOMAIN exec : exec[w].pc = "exit" /\ exec[w].id = "B"
    /\ "A" \in DOMAIN packages
    /\ StatusOf("A") = "waiting_for_deps"
    /\ StatusOf("B") = "completed"
    /\ queued["A"] = 1
    /\ <<"A", "B">> \in dependencies

\* no holder has left its block yet: every requested unit still has its
\* message in the broker or its task holding a slot or being turned away
NoReleaseYet ==
    \A p \in DOMAIN packages :
        \/ queued[p] > 0
        \/ \E w \in DOMAIN exec :
              exec[w].id = p /\ (InBlock(w) \/ exec[w].pc = "noslot")

\* the packages whose task holds a slot, and those that have saved building
Admitted == {p \in DOMAIN packages : \E w \in DOMAIN exec : exec[w].id = p /\ InBlock(w)}
ReachedBuilding ==
    {p \in DOMAIN packages :
        \E w \in DOMAIN exec :
            exec[w].id = p /\ InBlock(w) /\ exec[w].pc \notin {"admitted", "pending"}}

\* every task has made its first attempt and has saved its first status
Settled ==
    /\ \A w \in DOMAIN exec : exec[w].pc \notin {"admitted", "pending", "noslot"}
    /\ \A p \in DOMAIN packages : StatusOf(p) # "not_built"

C10_StartupRecovery ==
    [][reset_orphaned_builds =>
         /\ \A p \in DOMAIN packages :
               /\ StatusOf(p) \in {"pending", "building", "waiting_for_deps"}
                     => packages'[p].build_status = "not_built"
               /\ StatusOf(p) \in {"not_built", "completed", "failed"}
                     => packages'[p] = packages[p]
         /\ semaphore' = {}
         /\ Cardinality(semaphore') = 0]_vars

\* recovery has run over a build in progress and a waiting unit: both are
\* not_built, the gate is empty, the task is still running
C10_Witness ==
    /\ semaphore = {}
    /\ \E w \in DOMAIN exec : exec[w].pc = "building" /\ StatusOf(exec[w].id) = "not_built"
    /\ \A p \in DOMAIN packages : StatusOf(p) = "not_built"
    /\ \E p \in DOMAIN packages : queued[p] = 1

\* C11: every step that dispatches a unit's task (build request, rebuild,
\* build-all, completion trigger, retry) does so in a state where every
\* direct dependency of the unit is completed or not_required.
C11_DispatchOnlyWhenReady ==
    [][\A p \in DOMAIN packages :
          queued'[p] > queued[p] =>
              \A d \in DOMAIN packages :
                  <<p, d>> \in dependencies
                      => StatusOf(d) \in {"completed", "not_required"}]_vars


\* C12: every change of a unit's stored status follows the state machine:
\* building is entered only from pending, completed and failed only from
\* building.
C12_StateMachine ==
    [][\A p \in DOMAIN packages :
          packages'[p].build_status # StatusOf(p) =>
              /\ packages'[p].build_status = "building" => StatusOf(p) = "pending"
              /\ packages'[p].build_status \in {"completed", "failed"}
                    => StatusOf(p) = "building"]_vars


\* ------------------------------------------- claims on a failed admission
\* the caller's attempt is refused in this step: a try_acquire on a full
\* pool, or an acquire that gives up at its timeout
Refused(w) ==
    \/ \E j \in JobIds : TryAcquire(w, j) /\ caller'[w].st # "holding"
    \/ TimedOut(caller[w]) /\ AcquireLoop(w) /\ caller'[w].st = "idle"

\* C13: a refused admission (try_acquire on a full pool, acquire at its
\* timeout) adds no member to and removes no member from the held set,
\* leaves the key's expiry as it was, and the caller holds no slot.
C13_FailedAdmissionNoEffect ==
    [][\A w \in Callers :
          Refused(w) => /\ semaphore' = semaphore
                        /\ semTTL' = semTTL
                        /\ caller'[w].st = "idle"]_vars

\* an acquire whose timeout has elapsed on a full pool is about to give up
C13_Witness ==
    \E w \in Callers :
        /\ caller[w].st = "waiting"
        /\ TimedOut(caller[w])
        /\ Cardinality(semaphore) = max_concurrent
        /\ caller[w].job \notin semaphore


\* C16: a cancel of a unit that is waiting_for_deps or pending leaves the
\* unit in the cancelled state and changes nothing of the gate.
C16_CancelIsPureTransition ==
    [][\A p \in DOMAIN packages :
          CancelBuild(p) => /\ packages'[p].build_status = "cancelled"
                            /\ UNCHANGED gateVars]_vars


\* ------------------------------------- one unit with its diagnostic fields
\* a project of one package without dependencies, whose log, error,
\* findings and artifact fields are kept
UnitPackages == {"A"}

InitUnit ==
    /\ InitGateVars
    /\ max_concurrent = 1
    /\ caller = [w \in Callers |-> Idle]
    /\ OrderIdle
    /\ AnalyzerIdle
    /\ JobIdle({})
    /\ PipeIdle(UnitPackages, {}, Workers)
    /\ recorded = UnitPackages

\* without dependencies build_package never saves waiting_for_deps
NextUnit ==
    \/ \E p \in DOMAIN packages : BuildPackageCheck(p)
    \/ \E p \in DOMAIN packages : RebuildPackage(p)
    \/ \E p \in DOMAIN packages : CancelBuild(p)
    \/ BuildAllPackages
    \/ NextTasks
    \/ \E w \in DOMAIN exec : WorkerKilled(w)
    \/ reset_orphaned_builds
    \/ KeyExpires

SpecUnit == InitUnit /\ [][NextUnit]_vars

\* C15: a step that finds a unit pending and leaves it pending leaves its
\* stored build log and error message as they were.
C15_PendingReentryIdempotent ==
    [][\A p \in DOMAIN packages :
          StatusOf(p) = "pending" /\ packages'[p].build_status = "pending"
              => /\ packages'[p].build_log = packages[p].build_log
                 /\ packages'[p].build_error_message = packages[p].build_error_message]_vars

\* C20: a unit whose stored status is pending or building has an empty
\* stored log, error message, findings list and artifact paths.
C20_NoStaleDiagnostics ==
    \A p \in DOMAIN packages :
        StatusOf(p) \in {"pending", "building"}
            => /\ packages[p].build_log = ""
               /\ packages[p].build_error_message = ""
               /\ packages[p].analyzed_errors = <<>>
               /\ packages[p].srpm_path = ""
               /\ packages[p].rpm_path = ""


\* ------------------------------------------------- the build error analyzer
\* the analyzer instances a process may construct
Analyzers == {"a1", "a2"}

\* _initialize_patterns: rows of the table, in the order of the dict
PatternTable ==
    << [error_type |-> "missing_dependencies",
        category |-> "Missing Dependencies",
        suggestion |-> "Add missing dependencies to spec file Requires/BuildRequires"],
       [error_type |-> "missing_modules",
        category |-> "Missing Python Modules",
        suggestion |-> "Add Python module as BuildRequires (python3-{module})"],
       [error_type |-> "missing_files",
        category |-> "Missing Header Files",
        suggestion |-> "Install development packages for required libraries"],
       [error_type |-> "import_error",
        category |-> "Python Import Error",
        suggestion |-> "Ensure all required Python dependencies are installed"] >>

\* the lines a build log is made of
ModuleLine == "ModuleNotFoundError: No module named 'foo'"
HeaderLine == "fatal error: bar.h: No such file or directory"
BlankDependencyLine == "nothing provides requested  "
DependencyLine == "nothing provides requested gcc "
LogLines == {ModuleLine, HeaderLine, BlankDependencyLine, DependencyLine}

\* the build logs: sequences of at most MaxLines lines
Logs == UNION {[1..n -> LogLines] : n \in 0..MaxLines}

\* the names of the packages a long log asks for: pkg01, pkg02, ...
Digits == <<"0", "1", "2", "3", "4", "5", "6", "7", "8", "9">>
PackageName(n) == "pkg" \o Digits[(n \div 10) + 1] \o Digits[(n % 10) + 1]
PackageNames == {PackageName(n) : n \in 1..MaxMatches}

\* a line that asks for a package, with or without a blank at its end
RequestedLine(name, padded) ==
    "nothing provides requested " \o name \o (IF padded THEN " " ELSE "")

\* re.findall(pattern, line): what the pattern of a row captures on a line
LineMatch(error_type, line) ==
    IF error_type = "missing_dependencies"
    THEN IF line = BlankDependencyLine THEN <<" ">>
         ELSE IF line = DependencyLine THEN <<"gcc ">>
         ELSE IF \E name \in PackageNames : line = RequestedLine(name, FALSE)
         THEN <<CHOOSE name \in PackageNames : line = RequestedLine(name, FALSE)>>
         ELSE IF \E name \in PackageNames : line = RequestedLine(name, TRUE)
         THEN <<(CHOOSE name \in PackageNames : line = RequestedLine(name, TRUE)) \o " ">>
         ELSE <<>>
    ELSE IF error_type = "missing_modules"
    THEN IF line = ModuleLine THEN <<"foo">> ELSE <<>>
    ELSE IF error_type = "missing_files"
    THEN IF line = HeaderLine THEN <<"bar.h">> ELSE <<>>
    ELSE <<>>

\* re.findall(pattern, log_output, re.IGNORECASE | re.MULTILINE)
RECURSIVE FindAll(_, _)
FindAll(error_type, log) ==
    IF log = <<>> THEN <<>>
    ELSE LineMatch(error_type, Head(log)) \o FindAll(error_type, Tail(log))

\* item.strip()
Strip(item) ==
    IF item = " " THEN "" ELSE IF item = "gcc " THEN "gcc"
    ELSE IF \E name \in PackageNames : item = name \o " "
    THEN CHOOSE name \in PackageNames : item = name \o " "
    ELSE item

\* lines 176-182: the stripped, non-empty items, each once, in order
RECURSIVE UniqueItems(_, _, _)
UniqueItems(items, seen, unique_items) ==
    IF items = <<>> THEN unique_items
    ELSE LET item_clean == Strip(Head(items)) IN
         IF item_clean # "" /\ item_clean \notin seen
         THEN UniqueItems(Tail(items), seen \cup {item_clean},
                          Append(unique_items, item_clean))
         ELSE UniqueItems(Tail(items), seen, unique_items)

\* lines 160-190: the findings one row of the table adds
FindingsFor_matched(config, log) ==
    LET unique_items == UniqueItems(FindAll(config.error_type, log), {}, <<>>) IN
    IF FindAll(config.error_type, log) # <<>>
    THEN << [category |-> config.category,
             message |-> Len(unique_items),
             suggestion |-> config.suggestion,
             items |-> SubSeq(unique_items, 1, Min(Len(unique_items), 10))] >>
    ELSE <<>>
FindingsFor_uncapped(config, log) ==
    LET unique_items == UniqueItems(FindAll(config.error_type, log), {}, <<>>) IN
    IF FindAll(config.error_type, log) # <<>> /\ unique_items # <<>>
    THEN << [category |-> config.category,
             message |-> Len(unique_items),
             suggestion |-> config.suggestion,
             items |-> unique_items] >>
    ELSE <<>>
FindingsFor(config, log) ==
    LET unique_items == UniqueItems(FindAll(config.error_type, log), {}, <<>>) IN
    IF FindAll(config.error_type, log) # <<>> /\ unique_items # <<>>
    THEN << [category |-> config.category,
             message |-> Len(unique_items),
             suggestion |-> config.suggestion,
             items |-> SubSeq(unique_items, 1, Min(Len(unique_items), 10))] >>
    ELSE <<>>

\* line 156: errors = []
InitialErrors_kept == errors
InitialErrors == <<>>

\* lines 159-190: the loop over the table
RECURSIVE AnalyzeFrom(_, _, _)
AnalyzeFrom(table, log, found) ==
    IF table = <<>> THEN found
    ELSE AnalyzeFrom(Tail(table), log, found \o FindingsFor(Head(table), log))

\* BuildErrorAnalyzer.analyze
analyze(a, log) == AnalyzeFrom(patterns[a], log, InitialErrors)

\* BuildErrorAnalyzer(): __init__
NewAnalyzer(a) ==
    /\ a \notin DOMAIN patterns
    /\ patterns' = [x \in DOMAIN patterns \cup {a} |->
                       IF x = a THEN PatternTable ELSE patterns[x]]
    /\ UNCHANGED <<log_output, errors, self, previous>>
    /\ UNCHANGED nonAnalyzer

\* a call of analyze on instance a
Analyze(a, text) ==
    /\ a \in DOMAIN patterns
    /\ log_output' = text
    /\ errors' = analyze(a, text)
    /\ self' = a
    /\ UNCHANGED <<patterns, previous>>
    /\ UNCHANGED nonAnalyzer

\* the caller holds on to the result of the latest call
Remember ==
    /\ self # NoId
    /\ previous' = [called |-> TRUE, self |-> self, log_output |-> log_output,
                    errors |-> errors]
    /\ UNCHANGED <<patterns, log_output, errors, self>>
    /\ UNCHANGED nonAnalyzer

InitAnalyze ==
    /\ InitGateVars
    /\ max_concurrent = 1
    /\ caller = [w \in Callers |-> Idle]
    /\ OrderIdle
    /\ AnalyzerIdle
    /\ JobIdle({})
    /\ PipeIdle({}, {}, {})
    /\ recorded = {}

NextAnalyze ==
    \/ \E a \in Analyzers : NewAnalyzer(a)
    \/ \E a \in Analyzers, text \in Logs : Analyze(a, text)
    \/ Remember

SpecAnalyze == InitAnalyze /\ [][NextAnalyze]_vars

Matches(config, log) == FindAll(config.error_type, log) # <<>>

\* the pattern of a row has a match whose captured text is not blank
MatchesNonBlank(config, log) ==
    \E k \in 1..Len(FindAll(config.error_type, log)) :
        Strip(FindAll(config.error_type, log)[k]) # ""

\* the findings of the latest call that carry a category
FindingsOf(category) == {k \in 1..Len(errors) : errors[k].category = category}

\* the log of the example: a missing-module line and a missing-header line
ExampleLog(log) ==
    Len(log) = 2 /\ {log[1], log[2]} = {ModuleLine, HeaderLine}

\* what every finding carries, and the two findings of the example
FindingsWellFormed ==
    /\ \A k \in 1..Len(errors) :
          /\ \E i \in 1..Len(patterns[self]) :
                /\ errors[k].category = patterns[self][i].category
                /\ errors[k].suggestion = patterns[self][i].suggestion
          /\ errors[k].suggestion # ""
    /\ ExampleLog(log_output)
          => /\ Len(errors) = 2
             /\ errors[1].category = "Missing Python Modules"
             /\ errors[2].category = "Missing Header Files"

\* C18 as stated: after a call, every row of the table whose pattern
\* matches the log has exactly one finding and every other row none; each
\* finding carries its row's category and a non-empty suggestion; the
\* example log yields exactly its two findings.
C18_OneFindingPerMatch ==
    self # NoId =>
        /\ \A i \in 1..Len(patterns[self]) :
              Cardinality(FindingsOf(patterns[self][i].category))
                  = IF Matches(patterns[self][i], log_output) THEN 1 ELSE 0
        /\ FindingsWellFormed

\* C18 amended: a row has exactly one finding when its pattern has a match
\* whose captured text is not blank, and none otherwise (a match that
\* captures only whitespace gives no finding); the rest as stated.
C18_OneFindingPerNonBlankMatch ==
    self # NoId =>
        /\ \A i \in 1..Len(patterns[self]) :
              Cardinality(FindingsOf(patterns[self][i].category))
                  = IF MatchesNonBlank(patterns[self][i], log_output) THEN 1 ELSE 0
        /\ FindingsWellFormed

\* a log with a blank dependency line and a missing-module line: one
\* finding, for the module
C18_Witness ==
    /\ self # NoId
    /\ log_output = <<BlankDependencyLine, ModuleLine>>
    /\ Len(errors) = 1
    /\ errors[1].category = "Missing Python Modules"


\* ---------------------------------------------------- the build job pipeline
\* the BuildQueue rows of the job and the build_order values of packages
JobItems == {1, 2}
BuildOrders == {0, 1}

\* limiter.acquire(f"build_{build_queue_id}", timeout=300): the job id
QueueJobId(q) == "build_" \o ToString(q)
QueueJobIds == {QueueJobId(q) : q \in JobItems}

\* BuildQueue.objects.create(..., status='pending') for a package of a level
PendingItem(order) == [NoItem EXCEPT !.build_order = order]

\* build_package_task.delay(id) for every id of S: one more message each
ItemMessages(S) ==
    [q \in DOMAIN build_queue |->
        job_broker.build_package_task[q] + (IF q \in S THEN 1 ELSE 0)]
CanDispatch(S) == \A q \in S : job_broker.build_package_task[q] < MaxQueued

\* builds/tasks.py 246-292, create_build_job_task: the job, one pending
\* item per package, and the first process_build_queue message
create_build_job_task(orders) ==
    /\ build_job = "none"
    /\ build_job' = "pending"
    /\ build_queue' = [q \in JobItems |-> PendingItem(orders[q])]
    /\ job_broker' = [build_package_task |-> [q \in JobItems |-> 0],
                      process_build_queue |-> 1,
                      check_build_job_completion |-> 0]
    /\ UNCHANGED <<btask, gateVars, nonJob>>

\* builds/tasks.py 313-326: the pending items of the lowest build_order
PendingItems == {q \in DOMAIN build_queue : build_queue[q].status = "pending"}
BuildsToStart ==
    {q \in PendingItems :
        \A r \in PendingItems : build_queue[q].build_order <= build_queue[r].build_order}

\* builds/tasks.py 297-331, process_build_queue
process_build_queue ==
    /\ job_broker.process_build_queue > 0
    /\ CanDispatch(BuildsToStart)
    /\ build_job' = "building"
    /\ job_broker' = [job_broker EXCEPT !.process_build_queue = @ - 1,
                                        !.build_package_task = ItemMessages(BuildsToStart)]
    /\ UNCHANGED <<build_queue, btask, gateVars, nonJob>>

\* builds/tasks.py 25-33: a worker takes a message, reads the row and
\* enters limiter.acquire
BuildTaskStart(w, q) ==
    /\ btask[w].pc = "idle"
    /\ job_broker.build_package_task[q] > 0
    /\ job_broker' = [job_broker EXCEPT !.build_package_task[q] = @ - 1]
    /\ btask' = [btask EXCEPT ![w] =
           [pc |-> "acquire", id |-> q, waited |-> 0, queue_item |-> build_queue[q]]]
    /\ UNCHANGED <<build_job, build_queue, gateVars, nonJob>>

\* builds/tasks.py 216-222: the row the TimeoutError handler saves
SlotTimeoutRow(row) ==
    [row EXCEPT !.status = "failed", !.error_message = "Could not acquire job slot"]

\* one iteration of the loop of acquire (concurrency.py 65-88) in the task:
\* at the timeout the task's handler saves and the task returns
BuildTaskAcquire(w) ==
    /\ btask[w].pc = "acquire"
    /\ IF btask[w].waited >= MaxTimeout
       THEN /\ build_queue' = [build_queue EXCEPT ![btask[w].id] =
                                   SlotTimeoutRow(btask[w].queue_item)]
            /\ btask' = [btask EXCEPT ![w] = NoBuildTask]
            /\ UNCHANGED gateVars
       ELSE /\ RunScript(QueueJobId(btask[w].id))
            /\ btask' = [btask EXCEPT ![w].pc =
                   IF ScriptAdmits(semaphore) THEN "admitted" ELSE "acquire"]
            /\ UNCHANGED build_queue
    /\ UNCHANGED <<build_job, job_broker, nonJob>>

\* builds/tasks.py 34-40: the task's copy is set to building and saved
BuildingItem(row) ==
    [row EXCEPT !.status = "building", !.started_at = TRUE,
                !.build_log = "", !.error_message = ""]

BuildTaskSaveBuilding(w) ==
    /\ btask[w].pc = "admitted"
    /\ build_queue' = [build_queue EXCEPT ![btask[w].id] = BuildingItem(btask[w].queue_item)]
    /\ btask' = [btask EXCEPT ![w].pc = "building",
                              ![w].queue_item = BuildingItem(btask[w].queue_item)]
    /\ UNCHANGED <<build_job, job_broker, gateVars, nonJob>>

\* builds/tasks.py 48-128: the messages of the failed preconditions
ItemErrors == {"No spec file found"}

\* builds/tasks.py 48-128: builder, spec, sources and target are checked; a
\* failed check saves failed and returns
BuildTaskPreconditions(w) ==
    /\ btask[w].pc = "building"
    /\ \/ /\ btask' = [btask EXCEPT ![w].pc = "srpm"]
          /\ UNCHANGED build_queue
       \/ \E msg \in ItemErrors :
            LET row == [btask[w].queue_item EXCEPT !.status = "failed",
                                                   !.error_message = msg] IN
            /\ build_queue' = [build_queue EXCEPT ![btask[w].id] = row]
            /\ btask' = [btask EXCEPT ![w].pc = "exit", ![w].queue_item = row]
    /\ UNCHANGED <<build_job, job_broker, gateVars, nonJob>>

\* builds/tasks.py 224-231: the row the handler of an exception saves: it
\* reads the row again and sets status and message
ExceptItem(row, msg) ==
    [row EXCEPT !.status = "failed", !.error_message = msg]

\* an exception leaves the block (the slot is released), the handler saves
\* failed and retries the task while retries are left (max_retries=3)
ItemExcept(w, msg) ==
    /\ Srem(QueueJobId(btask[w].id))
    /\ build_queue' = [build_queue EXCEPT ![btask[w].id] = ExceptItem(@, msg)]
    /\ \/ /\ CanDispatch({btask[w].id})
          /\ job_broker' = [job_broker EXCEPT
                 !.build_package_task = ItemMessages({btask[w].id})]
       \/ UNCHANGED job_broker
    /\ btask' = [btask EXCEPT ![w] = NoBuildTask]
    /\ UNCHANGED <<build_job, nonJob>>

\* builds/tasks.py 144, 169: BuildQueue (builds/models.py 85-162) has no
\* method analyze_build_log, the call raises this AttributeError
NoAnalyzeBuildLog == "'BuildQueue' object has no attribute 'analyze_build_log'"

\* builds/tasks.py 140-152: build_srpm failed; status, message and log are
\* set on the task's copy, then analyze_build_log() raises before the save
BuildSrpmFailed(w) ==
    /\ btask[w].pc = "srpm"
    /\ ItemExcept(w, NoAnalyzeBuildLog)

\* builds/tasks.py 133-152: build_srpm
BuildTaskBuildSrpm(w) ==
    \/ /\ btask[w].pc = "srpm"
       /\ btask' = [btask EXCEPT ![w].pc = "rpm"]
       /\ UNCHANGED <<build_job, build_queue, job_broker, gateVars, nonJob>>
    \/ BuildSrpmFailed(w)

\* builds/tasks.py 165-177: build_rpm failed; as for build_srpm
BuildRpmFailed(w) ==
    /\ btask[w].pc = "rpm"
    /\ ItemExcept(w, NoAnalyzeBuildLog)

\* builds/tasks.py 200-205: the row saved after both stages succeeded (the
\* artifact paths are left out)
CompletedItem(row) ==
    [row EXCEPT !.status = "completed", !.build_log = "rpm log"]

\* builds/tasks.py 154-214: build_rpm; success saves completed and
\* dispatches check_build_job_completion
BuildTaskBuildRpm(w) ==
    \/ /\ btask[w].pc = "rpm"
       /\ job_broker.check_build_job_completion < MaxQueued
       /\ LET row == CompletedItem(btask[w].queue_item) IN
            /\ build_queue' = [build_queue EXCEPT ![btask[w].id] = row]
            /\ btask' = [btask EXCEPT ![w].pc = "exit", ![w].queue_item = row]
       /\ job_broker' = [job_broker EXCEPT !.check_build_job_completion = @ + 1]
       /\ UNCHANGED <<build_job, gateVars, nonJob>>
    \/ BuildRpmFailed(w)

\* the finally block of acquire at the end of the task
BuildTaskRelease(w) ==
    /\ btask[w].pc = "exit"
    /\ Srem(QueueJobId(btask[w].id))
    /\ btask' = [btask EXCEPT ![w] = NoBuildTask]
    /\ UNCHANGED <<build_job, build_queue, job_broker, nonJob>>

\* builds/tasks.py 224-231: an unexpected exception inside the block
BuildTaskRaise(w) ==
    /\ btask[w].pc \in {"admitted", "building"}
    /\ ItemExcept(w, "Unexpected error")

\* builds/tasks.py 334-377, check_build_job_completion
check_build_job_completion ==
    /\ job_broker.check_build_job_completion > 0
    /\ LET left == {q \in DOMAIN build_queue : build_queue[q].status \in {"pending", "building"}}
           failed == {q \in DOMAIN build_queue : build_queue[q].status = "failed"} IN
       IF left = {}
       THEN /\ build_job' = IF failed # {} THEN "failed" ELSE "completed"
            /\ job_broker' = [job_broker EXCEPT !.check_build_job_completion = @ - 1]
       ELSE /\ job_broker.process_build_queue < MaxQueued
            /\ job_broker' = [job_broker EXCEPT !.check_build_job_completion = @ - 1,
                                                !.process_build_queue = @ + 1]
            /\ UNCHANGED build_job
    /\ UNCHANGED <<build_queue, btask, gateVars, nonJob>>

\* builds/tasks.py 421-441: the ids of the build_package_task executions
\* that workers run or have reserved
ActiveBuildIds ==
    {q \in DOMAIN build_queue :
        \/ job_broker.build_package_task[q] > 0
        \/ \E w \in DOMAIN btask : btask[w].pc # "idle" /\ btask[w].id = q}

\* builds/tasks.py 446-464: the pending items the monitor dispatches (the
\* 30 seconds since creation have passed)
StuckPending ==
    {q \in PendingItems : ~build_queue[q].started_at /\ q \notin ActiveBuildIds}

\* builds/tasks.py 408-481, monitor_pending_work (the part on builds)
monitor_pending_work ==
    /\ StuckPending # {}
    /\ job_broker' = [job_broker EXCEPT !.build_package_task = ItemMessages(StuckPending)]
    /\ UNCHANGED <<build_job, build_queue, btask, gateVars, nonJob>>

\* the worker process is killed: nothing of the task runs any more
JobWorkerKilled(w) ==
    /\ btask[w].pc # "idle"
    /\ btask' = [btask EXCEPT ![w] = NoBuildTask]
    /\ UNCHANGED <<build_job, build_queue, job_broker, gateVars, nonJob>>

\* time passes: the key's TTL runs and the waiting tasks have slept (the
\* time a member has been held is not followed here); a task sleeps
\* (concurrency.py 88) only after the script has refused it, so no time
\* passes while a waiting task would be admitted
JobTick ==
    /\ \A w \in DOMAIN btask : btask[w].pc = "acquire" => ~ScriptAdmits(semaphore)
    /\ ExpireKey
    /\ UNCHANGED heldFor
    /\ btask' = [w \in DOMAIN btask |->
           IF btask[w].pc = "acquire"
           THEN [btask[w] EXCEPT !.waited = Min(@ + 1, MaxTimeout)]
           ELSE btask[w]]
    /\ UNCHANGED <<build_job, build_queue, job_broker, nonJob>>

InitJob ==
    /\ max_concurrent = 1
    /\ semaphore = {}
    /\ semTTL = 0
    /\ heldFor = [j \in QueueJobIds |-> 0]
    /\ caller = [w \in Callers |-> Idle]
    /\ OrderIdle
    /\ AnalyzerIdle
    /\ PipeIdle({}, {}, {})
    /\ recorded = {}
    /\ JobIdle(Workers)

NextJob ==
    \/ \E orders \in [JobItems -> BuildOrders] : create_build_job_task(orders)
    \/ process_build_queue
    \/ \E w \in DOMAIN btask, q \in DOMAIN build_queue : BuildTaskStart(w, q)
    \/ \E w \in DOMAIN btask : BuildTaskAcquire(w)
    \/ \E w \in DOMAIN btask : BuildTaskSaveBuilding(w)
    \/ \E w \in DOMAIN btask : BuildTaskPreconditions(w)
    \/ \E w \in DOMAIN btask : BuildTaskBuildSrpm(w)
    \/ \E w \in DOMAIN btask : BuildTaskBuildRpm(w)
    \/ \E w \in DOMAIN btask : BuildTaskRelease(w)
    \/ \E w \in DOMAIN btask : BuildTaskRaise(w)
    \/ check_build_job_completion
    \/ monitor_pending_work
    \/ \E w \in DOMAIN btask : JobWorkerKilled(w)
    \/ reset_orphaned_builds
    \/ JobTick

SpecJob == InitJob /\ [][NextJob]_vars


\* the executions of item q in flight: queued messages and the tasks that
\* wait for a slot or run
InFlight(q) ==
    job_broker.build_package_task[q]
        + Cardinality({w \in DOMAIN btask : btask[w].pc # "idle" /\ btask[w].id = q})

\* C14: a unit whose slot admission fails is never moved to Failed for that
\* reason: an item becomes failed only in an execution that was admitted.
C14_AdmissionFailureNeverFails ==
    [][\A q \in DOMAIN build_queue :
          (build_queue[q].status # "failed" /\ build_queue'[q].status = "failed")
              => \E w \in DOMAIN btask :
                     /\ btask[w].id = q
                     /\ btask[w].pc \in {"admitted", "building", "srpm", "rpm"}]_vars

\* C19: no unit ever has two pipeline executions in flight at the same
\* time (queued, waiting for a slot or running).
C19_OneExecutionInFlight ==
    \A q \in DOMAIN build_queue : InFlight(q) <= 1


\* C21: a build request on a unit with an unbuilt direct dependency sets the
\* unit to waiting_for_deps and dispatches nothing; a build request whose
\* dependencies are all built sets the unit to pending and dispatches it.
C21_BuildRequest ==
    [][\A p \in DOMAIN packages :
          /\ BuildPackageSave(p)
                => /\ packages'[p].build_status = "waiting_for_deps"
                   /\ UNCHANGED queued
          /\ (BuildPackageCheck(p) /\ UnbuiltDeps(p) = {})
                => /\ packages'[p].build_status = "pending"
                   /\ queued'[p] = queued[p] + 1]_vars


\* a project in which A depends on B and on C
TriggerPackages == {"A", "B", "C"}
TriggerDependencies == {<<"A", "B">>, <<"A", "C">>}

InitTrigger ==
    /\ InitGateVars
    /\ max_concurrent = 1
    /\ caller = [w \in Callers |-> Idle]
    /\ OrderIdle
    /\ AnalyzerIdle
    /\ JobIdle({})
    /\ PipeIdle(TriggerPackages, TriggerDependencies, Workers)
    /\ recorded = {}

\* build requests and the tasks they dispatch
NextTrigger ==
    \/ \E p \in DOMAIN packages : BuildPackageCheck(p)
    \/ \E p \in DOMAIN packages : BuildPackageSave(p)
    \/ NextTasks

SpecTrigger == InitTrigger /\ [][NextTrigger]_vars

\* C22: when trigger_waiting_builds runs for a completed unit, a unit that
\* is waiting_for_deps and depends on it is dispatched if and only if every
\* one of its direct dependencies is completed or not_required.
C22_TriggerChecksAllDeps ==
    [][\A w \in DOMAIN exec : TaskTrigger(w) =>
          \A q \in DOMAIN packages :
              (packages[q].build_status = "waiting_for_deps"
                    /\ <<q, exec[w].id>> \in dependencies)
                 => ((queued'[q] = queued[q] + 1)
                       <=> \A d \in DOMAIN packages :
                              <<q, d>> \in dependencies
                                 => packages[d].build_status \in BuiltStatuses)]_vars

\* a trigger for B or C is about to run while A waits and the other
\* dependency of A is not built
C22_Witness ==
    \E w \in DOMAIN exec :
        /\ exec[w].pc = "trigger"
        /\ packages["A"].build_status = "waiting_for_deps"
        /\ <<"A", exec[w].id>> \in dependencies
        /\ \E d \in DOMAIN packages :
              /\ d # exec[w].id
              /\ <<"A", d>> \in dependencies
              /\ packages[d].build_status \notin BuiltStatuses


\* the build job pipeline as Celery schedules it: beat runs the monitor
\* every 60 seconds (celery.py 88-91), the broker delivers every message to
\* a free worker, a running task takes its next step, time passes, and
\* from some point on no worker is killed or restarted
JobCrash ==
    \/ \E w \in DOMAIN btask : JobWorkerKilled(w)
    \/ reset_orphaned_builds

SpecJobFair ==
    /\ InitJob
    /\ [][NextJob]_vars
    /\ WF_vars(monitor_pending_work)
    /\ WF_vars(process_build_queue)
    /\ WF_vars(check_build_job_completion)
    /\ WF_vars(JobTick)
    /\ \A w \in Workers :
          /\ WF_vars(BuildTaskAcquire(w))
          /\ WF_vars(BuildTaskSaveBuilding(w))
          /\ WF_vars(BuildTaskPreconditions(w))
          /\ WF_vars(BuildTaskBuildSrpm(w))
          /\ WF_vars(BuildTaskBuildRpm(w))
          /\ WF_vars(BuildTaskRelease(w))
          /\ \A q \in JobItems :
                SF_vars(q \in DOMAIN build_queue /\ BuildTaskStart(w, q))
    /\ <>[][~JobCrash]_vars

\* the executions of item q that have been admitted and run the pipeline
Executing(q) ==
    {w \in DOMAIN btask :
        btask[w].id = q
            /\ btask[w].pc \in {"admitted", "building", "srpm", "rpm", "exit"}}

\* C23: a pending item without start time and without an executing or
\* queued task is dispatched again by the monitor and is eventually
\* executed (an execution of it is admitted and runs the pipeline).
C23_StuckPendingExecuted ==
    \A q \in JobItems :
        (q \in DOMAIN build_queue /\ q \in StuckPending)
            ~> (Executing(q) # {})


\* mock.py 400: the log_output of a failed build_srpm
SrpmLog == "srpm log"

\* C24: when build_srpm fails in an execution, build_rpm is not invoked in
\* that execution and the unit becomes failed with the failed stage's log
\* stored on it.
C24_FailedStageLogStored ==
    [][\A w \in DOMAIN btask :
          BuildSrpmFailed(w)
             => /\ btask'[w].pc # "rpm"
                /\ build_queue'[btask[w].id].status = "failed"
                /\ build_queue'[btask[w].id].build_log = SrpmLog]_vars


\* --------------------------------------------- both pipelines, stage by stage
\* the build job with its tasks only: no monitor, no crash
NextJobTasks ==
    \/ \E orders \in [JobItems -> BuildOrders] : create_build_job_task(orders)
    \/ process_build_queue
    \/ \E w \in DOMAIN btask, q \in DOMAIN build_queue : BuildTaskStart(w, q)
    \/ \E w \in DOMAIN btask : BuildTaskAcquire(w)
    \/ \E w \in DOMAIN btask : BuildTaskSaveBuilding(w)
    \/ \E w \in DOMAIN btask : BuildTaskPreconditions(w)
    \/ \E w \in DOMAIN btask : BuildTaskBuildSrpm(w)
    \/ \E w \in DOMAIN btask : BuildTaskBuildRpm(w)
    \/ \E w \in DOMAIN btask : BuildTaskRelease(w)
    \/ check_build_job_completion
    \/ JobTick

\* a deployment builds either single packages (build_single_package_task)
\* or a build job (build_package_task)
InitStages == InitUnit \/ InitJob

NextStages ==
    \/ DOMAIN packages # {} /\ NextUnit
    \/ DOMAIN btask # {} /\ NextJobTasks

SpecStages == InitStages /\ [][NextStages]_vars


\* C25: when a precondition of the build fails (spec missing, staged
\* sources missing, target invalid) the unit becomes failed with a
\* non-empty message, no builder stage is invoked in that execution, the
\* slot is released at its end and the task is not retried.
C25_PreconditionFailureTerminal ==
    [][/\ \A w \in DOMAIN exec :
            /\ (exec[w].pc = "building" /\ exec'[w].pc = "exit")
                  => /\ packages'[exec[w].id].build_status = "failed"
                     /\ packages'[exec[w].id].build_error_message # ""
                     /\ queued' = queued
            /\ (exec[w].pc = "exit" /\ exec'[w] # exec[w] /\ ~WorkerKilled(w))
                  => /\ exec'[w].pc = "idle"
                     /\ BuildJobId(exec[w].id) \notin semaphore'
                     /\ queued' = queued
       /\ \A w \in DOMAIN btask :
            /\ (btask[w].pc = "building" /\ btask'[w].pc = "exit")
                  => /\ build_queue'[btask[w].id].status = "failed"
                     /\ build_queue'[btask[w].id].error_message # ""
                     /\ job_broker' = job_broker
            /\ (btask[w].pc = "exit" /\ btask'[w] # btask[w])
                  => /\ btask'[w].pc = "idle"
                     /\ QueueJobId(btask[w].id) \notin semaphore'
                     /\ job_broker' = job_broker]_vars

\* an execution of either pipeline has stopped at a failed precondition and
\* still holds its slot
C25_Witness ==
    \/ \E w \in DOMAIN exec :
          /\ exec[w].pc = "exit"
          /\ packages[exec[w].id].build_status = "failed"
          /\ packages[exec[w].id].build_error_message \in PreconditionErrors
          /\ BuildJobId(exec[w].id) \in semaphore
    \/ \E w \in DOMAIN btask :
          /\ btask[w].pc = "exit"
          /\ build_queue[btask[w].id].status = "failed"
          /\ build_queue[btask[w].id].error_message \in ItemErrors
          /\ QueueJobId(btask[w].id) \in semaphore


\* C26: in every reachable state a unit whose stored status is failed has a
\* non-empty stored error message.
C26_FailedHasMessage ==
    \A p \in DOMAIN packages :
        StatusOf(p) = "failed" => packages[p].build_error_message # ""

\* a unit failed in a builder stage or in the exception handler, while a
\* worker is running another execution
C26_Witness ==
    \E p \in DOMAIN packages :
        /\ StatusOf(p) = "failed"
        /\ packages[p].build_error_message
              \in {"SRPM build failed", "RPM build failed", "Unexpected error"}
        /\ \E w \in DOMAIN exec : exec[w].pc # "idle"


\* C27: whenever a unit's stored status is completed, its SRPM and RPM
\* artifact paths are recorded and non-empty.
C27_CompletedHasArtifacts ==
    \A p \in DOMAIN packages :
        StatusOf(p) = "completed"
            => /\ packages[p].srpm_path \notin {"", "None"}
               /\ packages[p].rpm_path \notin {"", "None"}


BuildDir(p) == "package_builds/" \o p

\* tasks.py 637: the mock --uniqueext value of an execution for package p
UniqueExt(p) == "pkg" \o p

\* the executions that are in a builder stage
InStage == {w \in DOMAIN exec : exec[w].pc \in {"srpm", "rpm"}}

\* C29: any two pipeline executions in flight at the same time use distinct
\* working directories and distinct mock --uniqueext values.
C29_DistinctSandboxes ==
    \A w1 \in InStage, w2 \in InStage :
        w1 # w2 => /\ BuildDir(exec[w1].id) # BuildDir(exec[w2].id)
                   /\ UniqueExt(exec[w1].id) # UniqueExt(exec[w2].id)


\* builds/models.py 89-95: the statuses in which an item is finished
TerminalStatuses == {"completed", "failed", "cancelled"}

\* the items a step dispatches
Dispatched ==
    {q \in DOMAIN build_queue :
        job_broker'.build_package_task[q] > job_broker.build_package_task[q]}

\* C30: process_build_queue and the monitor dispatch a queue item of
\* build-order level N only when every queue item of the job at a level
\* below N is in a terminal state.
C30_LevelsInOrder ==
    [][(process_build_queue \/ monitor_pending_work)
          => \A q \in Dispatched : \A r \in DOMAIN build_queue :
                build_queue[r].build_order < build_queue[q].build_order
                    => build_queue[r].status \in TerminalStatuses]_vars


\* C31: an execution of build_single_package_task in which a store call
\* raised is handed to the task runner's retry policy: the step that ends it
\* queues a retry of the task (max_retries=3), it does not end the execution
\* the way a normal return does.
C31_ErrorReachesRetryPolicy ==
    [][\A w \in DOMAIN exec :
          TaskExcept(w) => queued'[exec[w].id] > queued[exec[w].id]]_vars


\* ------------------------------------------- the analyzer on long logs
\* a log of n lines that asks for the packages pkg01 .. pkg<n>, one a line
BaseLog(n) == [i \in 1..n |-> RequestedLine(PackageName(i), FALSE)]

\* the long logs: a base log of up to MaxMatches lines whose first or last
\* line is replaced by a blank request or by a request (with or without a
\* blank at its end) for any package of the log, so that a name can occur
\* twice, before or after its line in the base log
LongLogs ==
    UNION {{[BaseLog(n) EXCEPT ![k] = line] :
               k \in {1, n},
               line \in {BlankDependencyLine}
                        \cup {RequestedLine(PackageName(j), padded) :
                                  j \in 1..n, padded \in BOOLEAN}} :
           n \in (MaxMatches - 3)..MaxMatches}

NextItems ==
    \/ \E a \in Analyzers : NewAnalyzer(a)
    \/ \E a \in Analyzers, text \in LongLogs : Analyze(a, text)

SpecItems == InitAnalyze /\ [][NextItems]_vars

\* the row of the pattern table a finding belongs to
ConfigOf(finding) ==
    CHOOSE i \in DOMAIN PatternTable : PatternTable[i].category = finding.category

\* the stripped matches of the pattern of a finding in the analysed log
CleanMatches(finding) ==
    LET matches == FindAll(PatternTable[ConfigOf(finding)].error_type, log_output) IN
    [i \in DOMAIN matches |-> Strip(matches[i])]

\* the positions at which a non-empty stripped match occurs for the first time
FirstSeen(finding) ==
    LET clean == CleanMatches(finding) IN
    {i \in DOMAIN clean : clean[i] # "" /\ \A j \in 1..(i - 1) : clean[j] # clean[i]}

\* C32: the items of every finding are the distinct non-empty stripped matches
\* of its pattern in the order of their first occurrence, cut after the
\* tenth: no item occurs twice, and there are at most 10 of them.
C32_ItemsUniqueOrderedCapped ==
    \A e \in DOMAIN errors :
        LET items == errors[e].items
            clean == CleanMatches(errors[e])
            first == FirstSeen(errors[e]) IN
        /\ Len(items) <= 10
        /\ Len(items) = Min(Cardinality(first), 10)
        /\ \A k, l \in DOMAIN items : k # l => items[k] # items[l]
        /\ \A k \in DOMAIN items :
              /\ items[k] # ""
              /\ items[k] = clean[CHOOSE i \in first :
                                      Cardinality({j \in first : j <= i}) = k]

\* a log with more than ten distinct names, one of them asked for twice, was
\* analysed: the finding has ten items
C32_Witness ==
    \E e \in DOMAIN errors :
        /\ Len(errors[e].items) = 10
        /\ Cardinality(FirstSeen(errors[e])) > 10
        /\ Len(CleanMatches(errors[e])) > Cardinality(FirstSeen(errors[e]))


\* C33: when calculate_build_order has returned, for an acyclic or a cyclic
\* map, the levels are a partition of the map's keys: every level holds keys
\* only and every key is in exactly one level.
C33_LevelsPartitionKeys ==
    orderPc = "done" =>
        /\ \A i \in 1..Len(levels) : levels[i] \subseteq Keys(dependency_tree)
        /\ \A pkg \in Keys(dependency_tree) :
              Cardinality({i \in 1..Len(levels) : pkg \in levels[i]}) = 1

\* a call has returned through the branch of the circular dependency after
\* it had built a level, with more than one unit left for the last level
C33_Witness ==
    /\ orderPc = "done"
    /\ remaining # {}
    /\ Len(levels) >= 2
    /\ Cardinality(levels[Len(levels)]) >= 2



\* ---------------------------------------- the package pipeline, scheduled
\* requests and builds as the web server and Celery schedule them: a request
\* that has checked the dependencies goes on to its save, the broker
\* delivers every message to a free worker and a running task takes its
\* next step; no worker is killed, and nobody is obliged to send a further
\* request
SpecTriggerFair ==
    /\ InitTrigger
    /\ [][NextTrigger]_vars
    /\ \A p \in TriggerPackages : WF_vars(BuildPackageSave(p))
    /\ \A w \in Workers :
          /\ WF_vars(TaskSavePending(w))
          /\ WF_vars(TaskSaveBuilding(w))
          /\ WF_vars(TaskPreconditions(w))
          /\ WF_vars(TaskBuildSrpm(w))
          /\ WF_vars(TaskBuildRpm(w))
          /\ WF_vars(TaskTrigger(w))
          /\ WF_vars(TaskRelease(w))
          /\ WF_vars(TaskRaise(w))
          /\ WF_vars(TaskExcept(w))
          /\ WF_vars(TaskNoSlot(w))
          /\ \A p \in TriggerPackages : SF_vars(TaskStart(w, p))

\* C34: a unit that is waiting_for_deps while every dependency of it is
\* completed does not stay waiting_for_deps forever.
C34_NoLostWakeup ==
    \A p \in TriggerPackages :
        (/\ StatusOf(p) = "waiting_for_deps"
         /\ \A d \in DependsOn(p) : StatusOf(d) = "completed")
            ~> (StatusOf(p) # "waiting_for_deps")


\* C35: a unit whose build was cancelled and that was not requested since is
\* not building.
C35_CancelledNotBuilt ==
    \A p \in cancelled : StatusOf(p) # "building"


\* C36: a queue item that is completed stays completed: no step of the
\* build job pipeline, in which no build, rebuild or retry is requested once
\* the job is created, takes it out of completed.
C36_CompletedStaysCompleted ==
    [][\A q \in DOMAIN build_queue :
          (build_queue[q].status = "completed" /\ q \in DOMAIN build_queue')
              => build_queue'[q].status = "completed"]_vars


\* C37: startup recovery leaves alone the build a running worker is
\* executing: the status of its unit is not changed and its slot stays in
\* the gate.
C37_RecoverySparesRunningBuilds ==
    [][reset_orphaned_builds =>
         \A w \in DOMAIN exec :
             InBlock(w) =>
                 /\ packages'[exec[w].id].build_status = StatusOf(exec[w].id)
                 /\ BuildJobId(exec[w].id) \in semaphore
                       => BuildJobId(exec[w].id) \in semaphore']_vars


\* C38: once every queue item of the build job is completed, failed or
\* cancelled, the job's status eventually becomes completed or failed.
C38_JobEventuallySettled ==
    (/\ build_queue # <<>>
     /\ \A q \in DOMAIN build_queue : build_queue[q].status \in TerminalStatuses)
        ~> (build_job \in {"completed", "failed"})


\* the worker processes that run an execution of item q
Running(q) == {w \in DOMAIN btask : btask[w].pc # "idle" /\ btask[w].id = q}

\* C39: a queue item that is building while no worker runs an execution of
\* it (its worker was killed) is eventually moved out of building.
C39_OrphanLeavesBuilding ==
    \A q \in JobItems :
        (/\ q \in DOMAIN build_queue
         /\ build_queue[q].status = "building"
         /\ Running(q) = {})
            ~> (q \in DOMAIN build_queue /\ build_queue[q].status # "building")


\* ------------------------------------------------ a build job is cancelled
\* builds/views.py 166-170: the row of a pending item after the cancel
CancelledItem(row) ==
    IF row.status = "pending"
    THEN [row EXCEPT !.status = "cancelled",
                     !.error_message = "Build job cancelled by user"]
    ELSE row

\* builds/views.py 149-174, BuildJobViewSet.cancel
cancel ==
    /\ build_job \in {"pending", "building"}
    /\ build_job' = "cancelled"
    /\ build_queue' = [q \in DOMAIN build_queue |-> CancelledItem(build_queue[q])]
    /\ UNCHANGED <<job_broker, btask, gateVars, nonJob>>

\* the build job with its tasks and the cancel request
NextJobCancel ==
    \/ NextJobTasks
    \/ cancel

SpecJobCancel == InitJob /\ [][NextJobCancel]_vars

\* C40: process_build_queue and check_build_job_completion leave the status
\* of a cancelled build job as it is.
C40_CancelledJobStaysCancelled ==
    [][(build_job = "cancelled"
           /\ (process_build_queue \/ check_build_job_completion))
          => build_job' = "cancelled"]_vars

====
